---- MODULE Spec2Model ----
(***************************************************************************)
(* A model of direg.py: the directory regulator.  The program is           *)
(*     regulate(load(config['directories']))                               *)
(* load() expands each specification into DiregDirectory entities and      *)
(* regulate() runs "test, then conditionally solve" on each of them.       *)
(* The filesystem is part of the state: the files that exist, the tree of  *)
(* directories they live in, their sizes and modification times.           *)
(***************************************************************************)
EXTENDS Integers, Sequences, FiniteSets, TLC

(* ------------------------------ bounds --------------------------------- *)

\* the largest number of files of a generated filesystem
MaxFiles == 3

\* the largest number of specifications of a generated configuration
MaxSpecs == 2

\* the largest number of steps other processes take on the filesystem
MaxEnv == 2

\* the largest number of files of a filesystem of the runs checked for progress
MaxFairFiles == 2

(* ---------------------------- the filesystem --------------------------- *)

\* paths are sequences of names below the root the glob patterns start from
A == <<"a">>
SUB == <<"a", "sub">>
B == <<"b">>
F == <<"f">>

\* the directories of the tree; F is a regular file next to them
Dirs == {A, SUB, B}

\* os.walk: the sub-directories directly inside a directory
SubDirs(d) == {c \in Dirs : Len(c) = Len(d) + 1 /\ SubSeq(c, 1, Len(d)) = d}

\* os.path.isdir
IsDir(p) == p \in Dirs

VARIABLES
    files,        \* file id -> [dir, size, mtime]: every file of the run
    fs,           \* the ids of the files that exist now
    perm,         \* top-level path -> "rw", "r" or "none" (os.access)
    listing,      \* the order in which the root lists its entries
    directories,  \* config['directories']: the sequence of specifications
    pc,           \* the position of the program
    si,           \* load: index of the specification being processed
    paths,        \* load: the paths the current specification expanded to
    pj,           \* load: index of the next element of paths
    path,         \* load: the local variable `path`, "unbound" at first
    tasks,        \* load: the entities constructed so far
    di,           \* regulate: index of the entity being regulated
    contents,     \* remove_old: the snapshot it pops from
    testResult,   \* what the last call of test() returned or raised
    removed,      \* the files os.remove has removed, in order
    exc,          \* the exception raised by the last failing call
    log,          \* the error and warning records given to the logger
    envSteps,     \* the steps other processes have taken
    today,        \* datetime.today().weekday(): 0 is Monday
    hist          \* what the run has done so far, kept for the properties

vars == <<files, fs, perm, listing, directories, pc, si, paths, pj, path,
          tasks, di, contents, testResult, removed, exc, log, envSteps,
          today, hist>>

\* a loader that wants its directories writable
Readable_strict(p) == IF p \in DOMAIN perm THEN perm[p] = "rw" ELSE TRUE

\* os.access(path, os.R_OK) and os.access(path, os.W_OK)
Readable(p) == IF p \in DOMAIN perm THEN perm[p] \in {"rw", "r"} ELSE TRUE
Writable(p) == IF p \in DOMAIN perm THEN perm[p] = "rw" ELSE TRUE

\* the files directly inside directory d: the filenames os.walk yields for it
FileNames(d, live) == {f \in live : files[f].dir = d}

RECURSIVE SumSizes(_)
SumSizes(S) ==
    IF S = {} THEN 0
    ELSE LET f == CHOOSE x \in S : TRUE
         IN  files[f].size + SumSizes(S \ {f})

\* os.walk(top): top, then the walk of each of its sub-directories
RECURSIVE Walk(_)
RECURSIVE WalkAll(_)
WalkAll(ds) ==
    IF ds = {} THEN <<>>
    ELSE LET d == CHOOSE x \in ds : TRUE
         IN  Walk(d) \o WalkAll(ds \ {d})
Walk(top) == <<top>> \o WalkAll(SubDirs(top))

\* DiregDirectory.size: the total over the walk of the sizes of the filenames
RECURSIVE SizeOver(_, _)
SizeOver(w, live) ==
    IF w = <<>> THEN 0
    ELSE SumSizes(FileNames(Head(w), live)) + SizeOver(Tail(w), live)
\* a size that does not descend into sub-directories
size_flat(p, live) == SizeOver(<<p>>, live)

size(p, live) == SizeOver(Walk(p), live)

\* the files the walk of p finds
RECURSIVE FilesOver(_, _)
FilesOver(w, live) ==
    IF w = <<>> THEN {}
    ELSE FileNames(Head(w), live) \cup FilesOver(Tail(w), live)
\* a walk that reaches every file there is
Walked_all(p, live) == live

Walked(p, live) == FilesOver(Walk(p), live)

\* sorted(..., key = mtime, reverse = True): newest first
NewestFirst(s) ==
    \A i \in 1..Len(s) : \A j \in 1..Len(s) :
        i < j => files[s[i]].mtime >= files[s[j]].mtime

\* a listing kept from the first run: every file the run started with
get_contents_kept(p, live) ==
    LET S == Walked(p, DOMAIN files)
        n == Cardinality(S)
    IN  {s \in [1..n -> S] : (\A i, j \in 1..n : i # j => s[i] # s[j])
                             /\ NewestFirst(s)}

\* DiregDirectory.get_contents: every listing of the walked files that is
\* sorted newest first; files of equal mtime keep the order of the walk,
\* which is the order the operating system lists them in
get_contents(p, live) ==
    LET S == Walked(p, live)
        n == Cardinality(S)
    IN  {s \in [1..n -> S] : (\A i, j \in 1..n : i # j => s[i] # s[j])
                             /\ NewestFirst(s)}

(* ------------------------ specifications (dicts) ----------------------- *)

\* a specification is a dict: a function whose domain is the keys it has.
\* The values of 'test' and 'solution' are tagged by what Python sees:
\* a str, a callable (a function object, named by its __name__) or
\* something that is neither.
Str(s) == [kind |-> "str", v |-> s]
Fn(name) == [kind |-> "callable", v |-> name]
Other(x) == [kind |-> "other", v |-> x]

HasKey(spec, k) == k \in DOMAIN spec

\* dict.get(key, default)
Get(spec, k, default) == IF HasKey(spec, k) THEN spec[k] ELSE default

(* --------------------------- strategy registry ------------------------- *)

default_tests ==
    {"max_size", "max_count", "is_after", "is_day_of_week", "always", "never"}

default_solutions == {"remove_old", "send_email", "do_nothing"}

\* the tester and solution setters: a str is looked up in the registry
\* (KeyError when it is not there), anything left that is not callable is a
\* TypeError, and the function found is kept under its name
Setter(value, registry, what) ==
    IF value.kind = "str" /\ value.v \notin registry
    THEN [ok |-> FALSE, fn |-> "", raised |-> "KeyError",
          msg |-> "Invalid " \o what]
    ELSE IF value.kind = "other"
    THEN [ok |-> FALSE, fn |-> "", raised |-> "TypeError",
          msg |-> what \o " is not callable"]
    ELSE [ok |-> TRUE, fn |-> value.v, raised |-> "", msg |-> ""]

\* a tester setter that takes any name
tester_setter_any(value) ==
    Setter(value, default_tests \cup {value.v}, "test")

tester_setter(value) == Setter(value, default_tests, "test")

solution_setter(value) == Setter(value, default_solutions, "solution")

\* DiregDirectory.__init__: sets the tester, then the solution; a KeyError or
\* TypeError of either setter is replaced by a bare UnregulatableError
DiregDirectory(p, spec, i) ==
    LET t == tester_setter(Get(spec, "test", Fn("max_size")))
        s == solution_setter(Get(spec, "solution", Fn("remove_old")))
    IN  IF ~t.ok
        THEN [ok |-> FALSE, raised |-> "UnregulatableError",
              cause |-> t.raised, msg |-> t.msg]
        ELSE IF ~s.ok
        THEN [ok |-> FALSE, raised |-> "UnregulatableError",
              cause |-> s.raised, msg |-> s.msg]
        ELSE [ok |-> TRUE, raised |-> "", cause |-> "", msg |-> "",
              entity |-> [path |-> p, si |-> i,
                          tester |-> t.fn, solution |-> s.fn]]

(* ----------------------------- test strategies ------------------------- *)

Digit == [c \in {"0", "1", "2", "3", "4", "5", "6", "7", "8", "9"} |->
            CASE c = "0" -> 0 [] c = "1" -> 1 [] c = "2" -> 2 [] c = "3" -> 3
              [] c = "4" -> 4 [] c = "5" -> 5 [] c = "6" -> 6 [] c = "7" -> 7
              [] c = "8" -> 8 [] c = "9" -> 9]

\* the number of leading digit characters of a string
RECURSIVE LeadingDigits(_)
LeadingDigits(s) ==
    IF s = <<>> \/ Head(s) \notin DOMAIN Digit THEN 0
    ELSE 1 + LeadingDigits(Tail(s))

RECURSIVE Decimal(_)
Decimal(s) ==
    IF s = <<>> THEN 0
    ELSE 10 * Decimal(SubSeq(s, 1, Len(s) - 1)) + Digit[s[Len(s)]]

\* humanfriendly.parse_size on a string of characters: a number, then
\* nothing or the unit of bytes; all else is the library's InvalidSize
parse_size(s) ==
    LET n == LeadingDigits(s)
        unit == SubSeq(s, n + 1, Len(s))
    IN  IF n > 0 /\ unit \in {<<>>, <<"b">>}
        THEN [ok |-> TRUE, val |-> Decimal(SubSeq(s, 1, n))]
        ELSE [ok |-> FALSE, val |-> 0]

BoolStr(b) == IF b THEN "True" ELSE "False"

\* a test that also reports a directory of exactly the threshold
Larger_or_equal(sz, mx) == sz >= mx

\* max_size: `directory.size > max_size`
Larger(sz, mx) == sz > mx

\* max_size(directory): the KeyError of a missing option becomes an
\* UnregulatableError, the library's own error is not caught
max_size(d, live) ==
    LET spec == directories[d.si]
    IN  IF ~HasKey(spec, "max_size") THEN "UnregulatableError"
        ELSE LET t == parse_size(spec["max_size"])
             IN  IF ~t.ok THEN "InvalidSize"
                 ELSE BoolStr(Larger(size(d.path, live), t.val))

\* the values a specification gives 'max_count': an int, a str, a float
\* (its whole part and the digits after the point) or None
IntV(n) == [kind |-> "int", n |-> n, s |-> <<>>]
StrV(chars) == [kind |-> "str", n |-> 0, s |-> chars]
FloatV(whole, frac) == [kind |-> "float", n |-> whole, s |-> frac]
NoneV == [kind |-> "none", n |-> 0, s |-> <<>>]

\* int(value): an int is itself, a float is cut to its whole part, a str is
\* read as a signed decimal (ValueError when it is not one), None is a
\* TypeError
int(v) ==
    CASE v.kind = "int" -> [raised |-> "", val |-> v.n]
      [] v.kind = "float" -> [raised |-> "", val |-> v.n]
      [] v.kind = "str" ->
           LET neg == v.s # <<>> /\ Head(v.s) = "-"
               digits == IF neg THEN Tail(v.s) ELSE v.s
           IN  IF digits # <<>> /\ LeadingDigits(digits) = Len(digits)
               THEN [raised |-> "",
                     val |-> IF neg THEN 0 - Decimal(digits)
                             ELSE Decimal(digits)]
               ELSE [raised |-> "ValueError", val |-> 0]
      [] v.kind = "none" -> [raised |-> "TypeError", val |-> 0]

\* a count test that also reports a directory of exactly max_count files
max_count_or_equal(d, live) ==
    LET spec == directories[d.si]
    IN  IF ~HasKey(spec, "max_count") THEN "UnregulatableError"
        ELSE LET n == int(spec["max_count"])
             IN  IF n.raised = "ValueError" THEN "UnregulatableError"
                 ELSE IF n.raised # "" THEN n.raised
                 ELSE BoolStr(Cardinality(Walked(d.path, live)) >= n.val)

\* max_count(directory): the KeyError of a missing option and the ValueError
\* of int() become an UnregulatableError, any other error of int() is not
\* caught; len(directory.contents) is the number of the files of the walk
max_count(d, live) ==
    LET spec == directories[d.si]
    IN  IF ~HasKey(spec, "max_count") THEN "UnregulatableError"
        ELSE LET n == int(spec["max_count"])
             IN  IF n.raised = "ValueError" THEN "UnregulatableError"
                 ELSE IF n.raised # "" THEN n.raised
                 ELSE BoolStr(Cardinality(Walked(d.path, live)) > n.val)

\* the values a specification gives 'dow': one int, a list or tuple of
\* ints, or a str of digits, which Python iterates digit by digit
DowInt(n) == [kind |-> "int", items |-> <<n>>]
DowList(items) == [kind |-> "list", items |-> items]
DowStr(digits) == [kind |-> "str", items |-> digits]

\* isinstance(days, collections.Sequence)
IsSequence(v) == v.kind \in {"list", "str"}

\* str(n) of a natural number
RECURSIVE str_of(_)
str_of(n) ==
    LET last == <<"0", "1", "2", "3", "4", "5", "6", "7", "8", "9">>[(n % 10) + 1]
    IN  IF n < 10 THEN <<last>> ELSE str_of(n \div 10) \o <<last>>

\* ''.join(str(d) for d in days)
RECURSIVE join(_)
join(items) ==
    IF items = <<>> THEN <<>> ELSE str_of(Head(items)) \o join(Tail(items))

\* a in b, of two strings
In(a, b) ==
    \E i \in 1..(Len(b) - Len(a) + 1) : SubSeq(b, i, i + Len(a) - 1) = a

\* is_day_of_week(directory): a missing 'dow' is a KeyError; a value that
\* is not a sequence is left as it is by `days = (days)`, and iterating it
\* is a TypeError
is_day_of_week(d, live) ==
    LET spec == directories[d.si]
    IN  IF ~HasKey(spec, "dow") THEN "KeyError"
        ELSE IF ~IsSequence(spec["dow"]) THEN "TypeError"
        ELSE BoolStr(In(str_of(today), join(spec["dow"].items)))

always(d, live) == "True"

never(d, live) == "False"

\* a test that remembers its last answer and gives the other one
test_flip(d, live) == IF testResult = "True" THEN "False" ELSE "True"

\* DiregDirectory.test: what the bound test strategy returns ("True",
\* "False") or the name of the exception it raises
test(d, live) ==
    CASE d.tester = "max_size" -> max_size(d, live)
      [] d.tester = "max_count" -> max_count(d, live)
      [] d.tester = "is_day_of_week" -> is_day_of_week(d, live)
      [] d.tester = "always" -> always(d, live)
      [] d.tester = "never" -> never(d, live)

\* a caller that takes every answer for true
Truthy_any(r) == TRUE

\* `if self.test():`, `if not directory.test():`
Truthy(r) == r = "True"

Raises(r) == r \notin {"True", "False"}

(* ------------------------------- logging ------------------------------- *)

Rec(level, msg, arg) == [level |-> level, msg |-> msg, arg |-> arg]

NoExc == [type |-> "", cause |-> ""]

Raised(type, cause) == [type |-> type, cause |-> cause]

\* the value of the local variable `path` of load() before its first binding
Unbound == <<>>

(* --------------------------------- load -------------------------------- *)

\* glob.glob(os.path.expanduser(pattern)): the existing paths that match, in
\* the order the operating system lists them
glob(pattern) ==
    CASE pattern = "/a" -> <<A>>
      [] pattern = "/b" -> <<B>>
      [] pattern = "/f" -> <<F>>
      [] pattern = "/a/sub" -> <<SUB>>
      [] pattern = "/*" -> listing
      [] pattern = "/[bf]" -> SelectSeq(listing, LAMBDA p : p \in {B, F})
      [] pattern = "/z*" -> <<>>

\* load: the head of `for spec in directories`, up to the inner loop
load_spec ==
    /\ pc = "load_spec"
    /\ si <= Len(directories)
    /\ LET spec == directories[si]
       IN  IF ~HasKey(spec, "path")
           THEN \* except KeyError
                /\ log' = Append(log, Rec("error",
                              "Directory specification mission path component", <<>>))
                /\ si' = si + 1
                /\ UNCHANGED <<pc, paths, pj, exc>>
           ELSE IF glob(spec["path"]) = <<>>
           THEN \* raise UnregulatableError('no paths found in glob'); the
                \* handler formats its message with the local `path`
                IF path = Unbound
                THEN /\ pc' = "load_raised"
                     /\ exc' = Raised("UnboundLocalError", "UnregulatableError")
                     /\ UNCHANGED <<log, si, paths, pj>>
                ELSE /\ log' = Append(log, Rec("error",
                                   "Configuration problem! Skipping", path))
                     /\ si' = si + 1
                     /\ exc' = Raised("UnregulatableError", "")
                     /\ UNCHANGED <<pc, paths, pj>>
           ELSE /\ paths' = glob(spec["path"])
                /\ pj' = 1
                /\ pc' = "load_path"
                /\ UNCHANGED <<log, si, exc>>
    /\ UNCHANGED <<today, hist, files, fs, perm, listing, directories, path,
                   tasks, di,
                   contents, testResult, removed, envSteps>>

\* load: one iteration of `for path in paths`
load_path ==
    /\ pc = "load_path"
    /\ pj <= Len(paths)
    /\ LET p == paths[pj]
           new == DiregDirectory(p, directories[si], si)
           warn == IF Writable(p) THEN <<>>
                   ELSE <<Rec("warning", "is not writable", p)>>
       IN  /\ path' = p
           /\ IF ~IsDir(p)
              THEN /\ log' = Append(log, Rec("error", "is not a directory", p))
                   /\ pj' = pj + 1
                   /\ UNCHANGED <<pc, si, tasks, exc>>
              ELSE IF ~Readable(p)
              THEN /\ log' = Append(log, Rec("error", "is not readable", p))
                   /\ pj' = pj + 1
                   /\ UNCHANGED <<pc, si, tasks, exc>>
              ELSE IF new.ok
              THEN /\ tasks' = Append(tasks, new.entity)
                   /\ log' = log \o warn
                   /\ pj' = pj + 1
                   /\ UNCHANGED <<pc, si, exc>>
              ELSE \* except UnregulatableError: the rest of paths is left
                   /\ log' = log \o warn \o
                             <<Rec("error", new.msg, <<>>),
                               Rec("error", "Configuration problem! Skipping", p)>>
                   /\ exc' = Raised(new.raised, new.cause)
                   /\ si' = si + 1
                   /\ pc' = "load_spec"
                   /\ UNCHANGED <<pj, tasks>>
    /\ UNCHANGED <<today, hist, files, fs, perm, listing, directories, paths,
                   di,
                   contents, testResult, removed, envSteps>>

\* load: `for path in paths` is exhausted, on to the next specification
load_next ==
    /\ pc = "load_path"
    /\ pj > Len(paths)
    /\ si' = si + 1
    /\ pc' = "load_spec"
    /\ UNCHANGED <<today, hist, files, fs, perm, listing, directories, paths,
                   pj, path,
                   tasks, di, contents, testResult, removed, exc, log,
                   envSteps>>

\* load: return tasks, and regulate(tasks) begins
load_return ==
    /\ pc = "load_spec"
    /\ si > Len(directories)
    /\ pc' = "regulate"
    /\ di' = 1
    /\ UNCHANGED <<today, hist, files, fs, perm, listing, directories, si,
                   paths, pj, path,
                   tasks, contents, testResult, removed, exc, log, envSteps>>

(* ------------------------------- regulate ------------------------------ *)

\* what the regulation loop does with an exception that leaves
\* directory.regulate(): only UnregulatableError is caught (and logged)
Caught(type) == type = "UnregulatableError"

\* a loop that passes over every other entity
NextEntity_skip(i) == i + 2

\* regulate(directories): `for directory in directories` takes the next one
NextEntity(i) == i + 1

\* what the run has done, before it has done anything
HistInit ==
    [regulated |-> <<>>,   \* the entities regulate() was called on, in order
     entryFs |-> {},       \* the files that existed when it was last called
     snapshot |-> <<>>,    \* the listing remove_old last started from
     removedBy |-> <<>>,   \* for each removal, the entity that made it
     testedFs |-> {},      \* the files that existed at the last test()
     testedDi |-> 0,
     killed |-> <<>>]       \* the entity of the last test()

\* regulate(directories): one iteration of the loop up to the outcome of
\* DiregDirectory.regulate's call of test()
regulate_test ==
    /\ pc = "regulate"
    /\ di <= Len(tasks)
    /\ hist' = [hist EXCEPT !.regulated = Append(@, di), !.entryFs = fs,
                             !.testedFs = fs, !.testedDi = di]
    /\ LET r == test(tasks[di], fs)
       IN  /\ testResult' = r
           /\ IF Truthy(r)
              THEN /\ pc' = "solve"
                   /\ UNCHANGED <<di, exc, log>>
              ELSE IF ~Raises(r)
              THEN /\ di' = NextEntity(di)
                   /\ UNCHANGED <<pc, exc, log>>
              ELSE IF Caught(r)
              THEN /\ log' = Append(log, Rec("error", r, tasks[di].path))
                   /\ exc' = Raised(r, "")
                   /\ di' = NextEntity(di)
                   /\ UNCHANGED pc
              ELSE /\ pc' = "regulate_raised"
                   /\ exc' = Raised(r, "")
                   /\ UNCHANGED <<di, log>>
    /\ UNCHANGED <<today, files, fs, perm, listing, directories, si, paths,
                   pj, path,
                   tasks, contents, removed, envSteps>>

\* regulate(directories): the loop is exhausted
regulate_return ==
    /\ pc = "regulate"
    /\ di > Len(tasks)
    /\ pc' = "done"
    /\ UNCHANGED <<today, hist, files, fs, perm, listing, directories, si,
                   paths, pj, path,
                   tasks, di, contents, testResult, removed, exc, log,
                   envSteps>>

\* send_email(directory): raise Exception('Not Implemented')
send_email == "Exception"

\* DiregDirectory.solve: the call of the bound solution.  remove_old takes
\* its snapshot of the contents, send_email raises, do_nothing returns
solve ==
    /\ pc = "solve"
    /\ LET d == tasks[di]
       IN  CASE d.solution = "remove_old" ->
                  /\ contents' \in get_contents(d.path, fs)
                  /\ hist' = [hist EXCEPT !.snapshot = contents']
                  /\ pc' = "ro_loop"
                  /\ UNCHANGED <<di, exc, log>>
             [] d.solution = "send_email" ->
                  IF Caught(send_email)
                  THEN /\ log' = Append(log, Rec("error", send_email, d.path))
                       /\ exc' = Raised(send_email, "")
                       /\ di' = NextEntity(di)
                       /\ pc' = "regulate"
                       /\ UNCHANGED <<contents, hist>>
                  ELSE /\ pc' = "regulate_raised"
                       /\ exc' = Raised(send_email, "")
                       /\ UNCHANGED <<di, log, contents, hist>>
             [] d.solution = "do_nothing" ->
                  /\ di' = NextEntity(di)
                  /\ pc' = "regulate"
                  /\ UNCHANGED <<exc, log, contents, hist>>
    /\ UNCHANGED <<today, files, fs, perm, listing, directories, si, paths,
                   pj, path,
                   tasks, testResult, removed, envSteps>>

\* a loop that stops one candidate early
LoopCond_short(c) == Len(c) > 1

\* remove_old: `while contents:`
LoopCond(c) == c # <<>>

\* a loop that never breaks
Break_never(r) == FALSE

\* remove_old: `if not directory.test(): break`
Break(r) == ~Truthy(r)

\* remove_old: `while contents:` and the call of directory.test() that
\* follows it; a false test breaks out of the loop and remove_old returns
remove_old_test ==
    /\ pc = "ro_loop"
    /\ IF ~LoopCond(contents)
       THEN /\ di' = NextEntity(di)
            /\ pc' = "regulate"
            /\ UNCHANGED <<testResult, exc, log, hist>>
       ELSE LET r == test(tasks[di], fs)
            IN  /\ testResult' = r
                /\ hist' = [hist EXCEPT !.testedFs = fs, !.testedDi = di]
                /\ IF Raises(r)
                   THEN IF Caught(r)
                        THEN /\ log' = Append(log,
                                          Rec("error", r, tasks[di].path))
                             /\ exc' = Raised(r, "")
                             /\ di' = NextEntity(di)
                             /\ pc' = "regulate"
                        ELSE /\ pc' = "regulate_raised"
                             /\ exc' = Raised(r, "")
                             /\ UNCHANGED <<di, log>>
                   ELSE IF Break(r)
                   THEN /\ di' = NextEntity(di)
                        /\ pc' = "regulate"
                        /\ UNCHANGED <<exc, log>>
                   ELSE /\ pc' = "ro_remove"
                        /\ UNCHANGED <<di, exc, log>>
    /\ UNCHANGED <<today, files, fs, perm, listing, directories, si, paths,
                   pj, path,
                   tasks, contents, removed, envSteps>>

\* os.remove(file): fails when the file is gone or its directory is not
\* writable
CanRemove(f, live) == f \in live /\ Writable(files[f].dir)

\* list.pop(0): the first element
Pop_first(c) == 1

\* list.pop(): the index of the element it takes, the last one
Pop(c) == Len(c)

\* a pop that leaves the list as it was
Popped_keep(c) == c

\* the list that list.pop() leaves
Popped(c) == [i \in 1..(Len(c) - 1) |-> IF i < Pop(c) THEN c[i] ELSE c[i + 1]]

\* remove_old: os.remove(contents.pop())
remove_old_remove ==
    /\ pc = "ro_remove"
    /\ LET f == contents[Pop(contents)]
       IN  /\ contents' = Popped(contents)
           /\ IF CanRemove(f, fs)
              THEN /\ fs' = fs \ {f}
                   /\ removed' = Append(removed, f)
                   /\ hist' = [hist EXCEPT !.removedBy = Append(@, di)]
                   /\ pc' = "ro_loop"
                   /\ UNCHANGED exc
              ELSE /\ pc' = "regulate_raised"
                   /\ exc' = Raised("OSError", "")
                   /\ UNCHANGED <<fs, removed, hist>>
    /\ UNCHANGED <<today, files, perm, listing, directories, si, paths, pj,
                   path,
                   tasks, di, testResult, log, envSteps>>

(* ------------------------- the other processes ------------------------- *)

\* another process creates a file of the run that does not exist now
external_create ==
    /\ envSteps < MaxEnv
    /\ pc \notin {"done", "load_raised", "regulate_raised"}
    /\ \E f \in DOMAIN files \ fs : fs' = fs \cup {f}
    /\ envSteps' = envSteps + 1
    /\ UNCHANGED <<today, hist, files, perm, listing, directories, pc, si,
                   paths, pj, path,
                   tasks, di, contents, testResult, removed, exc, log>>

\* another process removes a file
external_remove ==
    /\ envSteps < MaxEnv
    /\ pc \notin {"done", "load_raised", "regulate_raised"}
    /\ \E f \in fs : fs' = fs \ {f}
    /\ envSteps' = envSteps + 1
    /\ UNCHANGED <<today, hist, files, perm, listing, directories, pc, si,
                   paths, pj, path,
                   tasks, di, contents, testResult, removed, exc, log>>

\* the process is killed inside remove_old and the program is started again:
\* the files stay as the killed run left them, and nothing else of it is kept
kill_restart ==
    /\ envSteps < MaxEnv
    /\ pc \in {"ro_loop", "ro_remove"}
    /\ envSteps' = envSteps + 1
    /\ hist' = [HistInit EXCEPT !.killed = Append(hist.killed, Len(removed))]
    /\ pc' = "load_spec"
    /\ si' = 1
    /\ paths' = <<>>
    /\ pj' = 1
    /\ path' = Unbound
    /\ tasks' = <<>>
    /\ di' = 0
    /\ contents' = <<>>
    /\ testResult' = ""
    /\ exc' = NoExc
    /\ log' = <<>>
    /\ UNCHANGED <<today, files, fs, perm, listing, directories, removed>>

(* ---------------------------- initial states --------------------------- *)

File(d, s, m) == [dir |-> d, size |-> s, mtime |-> m]

\* the filesystems of n files: any directory and size for each file; files
\* are numbered by age, and a file is as old as the one before it or newer
GenFiles(n) ==
    {fl \in [1..n -> [dir : Dirs, size : {10, 20}, mtime : 1..n]] :
        /\ n > 0 => fl[1].mtime = 1
        /\ \A i \in 1..(n - 1) :
              fl[i + 1].mtime \in {fl[i].mtime, fl[i].mtime + 1}}

AllRW == (A :> "rw") @@ (B :> "rw")

\* the state of the program before load() starts
Start ==
    /\ pc = "load_spec"
    /\ si = 1
    /\ paths = <<>>
    /\ pj = 1
    /\ path = Unbound
    /\ tasks = <<>>
    /\ di = 0
    /\ contents = <<>>
    /\ testResult = ""
    /\ removed = <<>>
    /\ exc = NoExc
    /\ log = <<>>
    /\ envSteps = 0
    /\ hist = HistInit

\* the specifications of one directory that vary its test and threshold
SolveSpecs ==
    {[path |-> "/a"] @@ x :
        x \in {<<>>, [max_size |-> <<"2", "0">>],
               [max_size |-> <<"3", "0", "b">>], [max_size |-> <<"b">>],
               [test |-> Str("always")], [test |-> Str("never")]}}

\* one specification over every filesystem of at most MaxFiles files
InitSolve ==
    /\ files \in UNION {GenFiles(n) : n \in 0..MaxFiles}
    /\ fs = DOMAIN files
    /\ perm = AllRW
    /\ listing = <<A, B, F>>
    /\ directories \in {<<s>> : s \in SolveSpecs}
    /\ today = 0
    /\ Start

\* five files of 10 bytes, each newer than the one before, in one directory
ScenarioFiles == [i \in 1..5 |-> File(A, 10, i)]

InitScenario ==
    /\ files = ScenarioFiles
    /\ fs = DOMAIN files
    /\ perm = AllRW
    /\ listing = <<A, B, F>>
    /\ directories \in {<<[path |-> "/a"] @@ m>> :
          m \in {[max_size |-> <<"3", "0", "b">>], [max_size |-> <<"2", "0">>],
                 [max_size |-> <<"0", "b">>]}}
    /\ today = 0
    /\ Start

\* the specifications that vary the path, the strategies and their options
ConfigSpecs ==
    {p @@ [max_size |-> <<"2", "0">>] :
        p \in {<<>>, [path |-> "/z*"], [path |-> "/f"], [path |-> "/a"],
               [path |-> "/[bf]"], [path |-> "/*"]}}
    \cup
    {[path |-> "/*"] @@ x :
        x \in {<<>>, [max_size |-> <<"b">>],
               [test |-> Str("always")],
               [test |-> Str("always"), solution |-> Str("send_email")],
               [test |-> Str("never"), solution |-> Str("send_email")],
               [test |-> Str("always"), solution |-> Str("do_nothing")],
               [test |-> Fn("always"), solution |-> Fn("do_nothing")],
               [test |-> Str("bogus")], [test |-> Other("42")],
               [solution |-> Str("bogus")], [solution |-> Other("42")]}}

Orders(S) ==
    {s \in [1..Cardinality(S) -> S] :
        \A i, j \in 1..Cardinality(S) : i # j => s[i] # s[j]}

\* at most MaxSpecs specifications over a fixed filesystem, with every order
\* of the root's listing and every permission of directory A
InitConfig ==
    /\ files = <<File(A, 20, 1), File(SUB, 10, 2), File(B, 20, 1)>>
    /\ fs = DOMAIN files
    /\ perm \in {(A :> p) @@ (B :> "rw") : p \in {"rw", "r", "none"}}
    /\ listing \in Orders({A, B, F})
    /\ directories \in UNION {[1..n -> ConfigSpecs] : n \in 1..MaxSpecs}
    /\ today = 0
    /\ Start

\* the specifications of one directory that vary the options of the
\* count test and of the day-of-week test
OptionSpecs ==
    {[path |-> "/a", test |-> Str("max_count")] @@ x :
        x \in {<<>>} \cup
              {[max_count |-> v] :
                  v \in {IntV(0), IntV(1), IntV(2), StrV(<<"1">>),
                         StrV(<<"-", "1">>), StrV(<<"x">>),
                         FloatV(1, <<"5">>), NoneV}}}
    \cup
    {[path |-> "/a", test |-> Str("is_day_of_week")] @@ x :
        x \in {<<>>} \cup
              {[dow |-> v] :
                  v \in {DowInt(3), DowList(<<0, 3>>), DowList(<<10>>),
                         DowList(<<>>), DowStr(<<3>>)}}}

\* one specification of a count or a day-of-week test, on any day, over the
\* filesystems of at most MaxFiles files of one size in directory A and
\* below it
InitOptions ==
    /\ files \in UNION {{fl \in GenFiles(n) :
                            \A i \in 1..n : fl[i].dir # B /\ fl[i].size = 10} :
                          n \in 0..MaxFiles}
    /\ fs = DOMAIN files
    /\ perm = AllRW
    /\ listing = <<A, B, F>>
    /\ directories \in {<<s>> : s \in OptionSpecs}
    /\ \/ directories[1]["test"].v = "max_count" /\ today = 0
       \/ directories[1]["test"].v = "is_day_of_week" /\ today \in 0..6
                                                     /\ Len(files) <= 1
    /\ Start

\* the specifications of a directory, of the directory below it and of a
\* directory beside it, each with the default solution
NestedSpecs ==
    {[path |-> p] @@ x :
        p \in {"/a", "/a/sub", "/b"},
        x \in {[test |-> Str("always")], [test |-> Str("never")],
               [max_size |-> <<"1", "0">>],
               [test |-> Str("max_count"), max_count |-> IntV(1)]}}

\* at most MaxSpecs such specifications over a fixed filesystem whose files
\* have distinct modification times
InitNested ==
    /\ files = <<File(A, 10, 1), File(SUB, 10, 2), File(B, 10, 3),
                 File(A, 10, 4)>>
    /\ fs = DOMAIN files
    /\ perm = AllRW
    /\ listing = <<A, B, F>>
    /\ directories \in UNION {[1..n -> NestedSpecs] : n \in 1..MaxSpecs}
    /\ today = 0
    /\ Start

Init ==
    InitSolve \/ InitScenario \/ InitConfig \/ InitOptions \/ InitNested

Next ==
    \/ load_spec
    \/ load_path
    \/ load_next
    \/ load_return
    \/ regulate_test
    \/ regulate_return
    \/ solve
    \/ remove_old_test
    \/ remove_old_remove

Spec == Init /\ [][Next]_vars

\* one specification over the filesystems of at most MaxFairFiles files in
\* directory A and below it, and the directory writable or not
InitFair ==
    /\ files \in UNION {{fl \in GenFiles(n) : \A i \in 1..n : fl[i].dir # B} :
                          n \in 0..MaxFairFiles}
    /\ fs = DOMAIN files
    /\ perm \in {AllRW, (A :> "r") @@ (B :> "rw")}
    /\ listing = <<A, B, F>>
    /\ directories \in {<<s>> : s \in SolveSpecs}
    /\ today = 0
    /\ Start

\* the run is single-threaded and nothing suspends it: it keeps taking steps
FairSpec == (InitFair \/ InitScenario) /\ [][Next]_vars /\ WF_vars(Next)

\* a directory of four files, some of which exist, that other processes
\* create and remove files in while the program runs
InitEnv ==
    /\ files = [i \in 1..4 |-> File(IF i = 3 THEN SUB ELSE A, 10, i)]
    /\ fs \in SUBSET (DOMAIN files)
    /\ perm = AllRW
    /\ listing = <<A, B, F>>
    /\ directories \in {<<[path |-> "/a"] @@ m>> :
          m \in {[max_size |-> <<"2", "0">>], [max_size |-> <<"1", "0", "b">>],
                 [test |-> Str("always")]}}
    /\ today = 0
    /\ Start

NextEnv == Next \/ external_create \/ external_remove

SpecEnv == InitEnv /\ [][NextEnv]_vars

\* the program keeps taking steps whatever the other processes do
FairSpecEnv == SpecEnv /\ WF_vars(Next)

\* the specifications of one directory with a size or a count test whose
\* threshold is valid, and the default solution remove_old
KillSpecs ==
    {[path |-> "/a"] @@ x :
        x \in {[max_size |-> <<"2", "0">>], [max_size |-> <<"1", "0", "b">>],
               [max_size |-> <<"0">>],
               [test |-> Str("max_count"), max_count |-> IntV(0)],
               [test |-> Str("max_count"), max_count |-> IntV(1)],
               [test |-> Str("max_count"), max_count |-> IntV(2)]}}

\* at most MaxFiles files of distinct modification times in directory A and
\* below it
InitKill ==
    /\ files \in UNION {{fl \in GenFiles(n) :
                            \A i \in 1..n : fl[i].dir # B /\ fl[i].mtime = i} :
                          n \in 0..MaxFiles}
    /\ fs = DOMAIN files
    /\ perm = AllRW
    /\ listing = <<A, B, F>>
    /\ directories \in {<<s>> : s \in KillSpecs}
    /\ today = 0
    /\ Start

NextKill == Next \/ kill_restart

SpecKill == InitKill /\ [][NextKill]_vars

(* ------------------------------ properties ----------------------------- *)

\* a step of the program, as opposed to a step of another process
ProgramStep == envSteps' = envSteps

\* C1: remove_old never removes a file when the live test is false: every
\* removal it performs comes right after a call of test() that returned true,
\* and a pass of its loop in which test() returns false ends remove_old with
\* the files as they were
C1_NoRemovalOnFalseTest ==
    [][/\ (removed' # removed \/ (fs' # fs /\ ProgramStep))
            => (pc = "ro_remove" /\ testResult = "True")
       /\ (pc = "ro_loop" /\ pc' # pc /\ contents # <<>>
           /\ testResult' = "False")
            => (pc' = "regulate" /\ fs' = fs /\ removed' = removed)]_vars

\* C1 witness: remove_old was entered with a snapshot, another process made
\* the test false before its first pass, and it returned having removed nothing
C1_Witness ==
    /\ pc = "regulate"
    /\ di = 2
    /\ contents # <<>>
    /\ testResult = "False"
    /\ removed = <<>>
    /\ envSteps > 0

\* the files that exist in directory p or below it
IsUnder(d, p) == Len(p) <= Len(d) /\ SubSeq(d, 1, Len(p)) = p
Under(p, live) == {f \in live : IsUnder(files[f].dir, p)}

InRemoveOld == pc \in {"ro_loop", "ro_remove"}

\* C2: remove-oldest convergence: every pass of the loop of remove_old that
\* removes a file leaves strictly fewer files in the directory, remove_old
\* always comes to an end, and when it returns either the test has just
\* returned false or its snapshot is empty
C2_Convergence ==
    /\ [][(pc = "ro_remove" /\ pc' = "ro_loop")
            => Cardinality(Under(tasks[di].path, fs'))
                 < Cardinality(Under(tasks[di].path, fs))]_vars
    /\ [][(InRemoveOld /\ pc' = "regulate")
            => (testResult' = "False" \/ contents' = <<>>)]_vars
    /\ (InRemoveOld ~> ~InRemoveOld)

\* C2 witness: remove_old has returned after removing two files, the test
\* false at last
C2_Witness ==
    /\ pc = "regulate"
    /\ di = 2
    /\ Len(removed) = 2
    /\ testResult = "False"
    /\ contents # <<>>

\* the files of directory p, present or not, have pairwise distinct mtimes
DistinctTimes(p) ==
    \A f, g \in Under(p, DOMAIN files) :
        f # g => files[f].mtime # files[g].mtime

Range(s) == {s[i] : i \in DOMAIN s}

\* C3: removal order: in a directory whose files have pairwise distinct
\* modification times, whenever remove_old removes a file, every file of its
\* snapshot that is left is newer than the removed one (oldest first)
C3_OldestFirst ==
    [][(removed' # removed /\ DistinctTimes(tasks[di].path))
         => \A g \in Range(contents') :
               files[g].mtime > files[removed'[Len(removed')]].mtime]_vars

\* C3 witness: three files of distinct mtimes were removed from a directory
\* and files of the snapshot are left
C3_Witness ==
    /\ pc = "ro_loop"
    /\ Len(removed) = 3
    /\ Len(contents) >= 2
    /\ DistinctTimes(tasks[di].path)

\* the run of the scenario: five files of 10 bytes in /a, max_size = "30b",
\* the default test and the default solution
Scenario ==
    /\ files = ScenarioFiles
    /\ directories = <<[path |-> "/a", max_size |-> <<"3", "0", "b">>]>>

\* the bytes of the files in S, file by file in the order of their ids
RECURSIVE BytesUpTo(_, _)
BytesUpTo(n, S) ==
    IF n = 0 THEN 0
    ELSE (IF n \in S THEN files[n].size ELSE 0) + BytesUpTo(n - 1, S)
Bytes(S) == BytesUpTo(Len(files), S)

\* C4 as claimed: the scenario ends with the three oldest files removed in
\* three removals, the two newest left, 20 bytes in all
C4_Claimed ==
    (Scenario /\ pc = "done")
        => (removed = <<1, 2, 3>> /\ fs = {4, 5} /\ Bytes(fs) = 20)

\* C4 as amended: the scenario ends with the two oldest files removed in
\* exactly two removals, the three newest left, 30 bytes in all: 30 bytes do
\* not exceed the threshold of 30 bytes
C4_TwoRemovals ==
    (Scenario /\ pc = "done")
        => (removed = <<1, 2>> /\ fs = {3, 4, 5} /\ Bytes(fs) = 30)

\* C4 witness: the scenario has run to its end
C4_Witness == Scenario /\ pc = "done" /\ Len(removed) = 2

\* load() has returned: the program is in regulate() or past it
AfterLoad ==
    pc \in {"regulate", "solve", "ro_loop", "ro_remove", "done",
            "regulate_raised"}

InRegulate == pc \in {"regulate", "solve", "ro_loop", "ro_remove"}

\* C5 as claimed: whenever testing or solving an entity raises an error, the
\* error is caught and logged and the loop goes on with the next entity
C5_Claimed ==
    [][(InRegulate /\ exc' # exc)
         => (pc' = "regulate" /\ di' = di + 1
             /\ Len(log') = Len(log) + 1)]_vars

\* C6 as claimed: solving an entity whose solution is send_email raises an
\* error that is caught and logged by the regulation loop, which goes on, and
\* no file is touched
C6_Claimed ==
    [][(pc = "solve" /\ tasks[di].solution = "send_email")
         => (pc' = "regulate" /\ fs' = fs
             /\ log' = Append(log, Rec("error", "Exception", tasks[di].path)))]_vars

\* a value of 'test' or 'solution' that resolves: a registered name or a
\* callable
Resolves(spec, key, registry) ==
    HasKey(spec, key) =>
        \/ spec[key].kind = "callable"
        \/ spec[key].kind = "str" /\ spec[key].v \in registry

Resolvable(spec) ==
    /\ Resolves(spec, "test", default_tests)
    /\ Resolves(spec, "solution", default_solutions)

\* the paths of the entities that came from specification i, in order
PathsOf(i) ==
    LET own == SelectSeq(tasks, LAMBDA e : e.si = i)
    IN  [k \in 1..Len(own) |-> own[k].path]

\* the expanded paths of specification i that are directories and readable
Expected(i) ==
    SelectSeq(glob(directories[i]["path"]),
              LAMBDA p : p \in Dirs /\ (p \in {A, B} => perm[p] # "none"))

\* C7 as claimed: load() never raises, whatever the position of a
\* specification without a path or without a match, and it returns the
\* entities of every valid path of every other specification
C7_Claimed ==
    /\ pc # "load_raised"
    /\ AfterLoad =>
         \A i \in DOMAIN directories :
            PathsOf(i) = IF HasKey(directories[i], "path")
                            /\ Resolvable(directories[i])
                         THEN Expected(i) ELSE <<>>

\* C8: for a specification with resolvable strategies, once load() is done
\* with it, it has made exactly one entity for each expanded path that is a
\* directory and readable, writable or not, in the order of the expansion
C8_OneEntityPerValidPath ==
    \A i \in DOMAIN directories :
        ((i < si \/ AfterLoad) /\ HasKey(directories[i], "path")
            /\ Resolvable(directories[i]))
          => PathsOf(i) = Expected(i)

\* C8 witness: a specification expanded to a regular file and then a
\* directory that is readable, and load() returned one entity, for the latter
C8_Witness ==
    /\ AfterLoad
    /\ Len(directories) = 1
    /\ HasKey(directories[1], "path")
    /\ glob(directories[1]["path"]) = <<F, B>>
    /\ Len(tasks) = 1
    /\ tasks[1].path = B

\* the function a value of 'test' or 'solution' stands for: the built-in of
\* that name, the callable itself, or the default when the key is absent
Denotes(spec, key, default) ==
    IF HasKey(spec, key) THEN spec[key].v ELSE default

\* every entity made so far has the strategies its specification names,
\* and none was made from a value that does not resolve
TasksResolved ==
    \A k \in DOMAIN tasks :
        LET spec == directories[tasks[k].si]
        IN  /\ Resolvable(spec)
            /\ tasks[k].tester = Denotes(spec, "test", "max_size")
            /\ tasks[k].solution = Denotes(spec, "solution", "remove_old")

\* the error of the first value of a specification that does not resolve:
\* an unregistered name is a KeyError, anything else a TypeError
FailureOf(spec) ==
    LET bad == IF ~Resolves(spec, "test", default_tests)
               THEN spec["test"] ELSE spec["solution"]
    IN  IF bad.kind = "str" THEN "KeyError" ELSE "TypeError"

\* load() is at a path whose entity cannot be constructed
ConstructionFails ==
    /\ pc = "load_path"
    /\ pj <= Len(paths)
    /\ pc' = "load_spec"

\* C9 as claimed: strategies resolve as named and no unresolved entity is
\* made, and the construction that fails raises the unknown-strategy error
\* (KeyError) for an unregistered name and a TypeError for a value that is
\* neither a name nor callable
C9_Claimed ==
    /\ []TasksResolved
    /\ [][ConstructionFails
            => exc'.type = FailureOf(directories[si])]_vars

\* C9 as amended: strategies resolve as named and no unresolved entity is
\* made; the setter that fails raises KeyError for an unregistered name and
\* TypeError for a value that is neither a name nor callable, and the
\* constructor replaces either by the same UnregulatableError
C9_ResolutionFailFast ==
    /\ []TasksResolved
    /\ [][ConstructionFails
            => (/\ ~Resolvable(directories[si])
                /\ exc'.cause = FailureOf(directories[si])
                /\ exc'.type = "UnregulatableError"
                /\ tasks' = tasks)]_vars

\* C9 witness: entities with named and callable strategies were made, after
\* a construction failed on an unregistered name
C9_Witness ==
    /\ AfterLoad
    /\ exc = Raised("UnregulatableError", "KeyError")
    /\ Len(tasks) > 0
    /\ \E k \in DOMAIN tasks :
          /\ HasKey(directories[tasks[k].si], "test")
          /\ directories[tasks[k].si]["test"].kind = "callable"

\* the number of bytes a max_size string of the runs stands for
Threshold(str) ==
    CASE str = <<"0", "b">> -> 0
      [] str = <<"0">> -> 0
      [] str = <<"1", "0">> -> 10
      [] str = <<"1", "0", "b">> -> 10
      [] str = <<"2", "0">> -> 20
      [] str = <<"3", "0", "b">> -> 30
      [] OTHER -> -1

\* the step calls test() on the entity being regulated
CallsTest ==
    \/ pc = "regulate" /\ di <= Len(tasks)
    \/ pc = "ro_loop" /\ contents # <<>>

\* C10: the max_size test returns true exactly when the bytes of the files
\* in the directory and below it, at the moment of the call, exceed the
\* threshold (equal is not a violation), and it raises UnregulatableError
\* when no max_size is configured
C10_MaxSize ==
    [][(CallsTest /\ tasks[di].tester = "max_size")
         => LET spec == directories[tasks[di].si]
                total == Bytes(Under(tasks[di].path, fs))
            IN  IF ~HasKey(spec, "max_size")
                THEN testResult' = "UnregulatableError"
                ELSE Threshold(spec["max_size"]) >= 0
                       => /\ testResult' \in {"True", "False"}
                          /\ testResult' = "True"
                               <=> total > Threshold(spec["max_size"])]_vars

\* C10 witness: the test has returned false on a directory that holds, with
\* its sub-directory, exactly the bytes of its threshold
C10_Witness ==
    /\ pc = "regulate"
    /\ di = 2
    /\ tasks[1].tester = "max_size"
    /\ tasks[1].path = A
    /\ testResult = "False"
    /\ HasKey(directories[1], "max_size")
    /\ Threshold(directories[1]["max_size"]) = 30
    /\ Bytes(Under(A, fs)) = 30
    /\ Under(SUB, fs) # {}

\* a value of 'max_count' that is an integer: an int, or a str that is
\* the decimal of one
IsInteger(v) ==
    \/ v.kind = "int"
    \/ v.kind = "str" /\ v.s \in {<<"1">>, <<"-", "1">>}

\* the integer such a value stands for
IntegerOf(v) ==
    CASE v.kind = "int" -> v.n
      [] v.s = <<"1">> -> 1
      [] v.s = <<"-", "1">> -> -1

\* C11 as claimed: the max_count test returns true exactly when the number
\* of files in the directory and below it exceeds max_count, and it raises
\* UnregulatableError whenever max_count is absent or not an integer
C11_Claimed ==
    [][(CallsTest /\ tasks[di].tester = "max_count")
         => LET spec == directories[tasks[di].si]
                count == Cardinality(Under(tasks[di].path, fs))
            IN  IF ~HasKey(spec, "max_count")
                   \/ ~IsInteger(spec["max_count"])
                THEN testResult' = "UnregulatableError"
                ELSE testResult'
                       = BoolStr(count > IntegerOf(spec["max_count"]))]_vars

\* C12 as claimed: the is_day_of_week test returns a boolean for a single
\* weekday and for a sequence of weekdays alike, and it returns true exactly
\* when today's weekday is an element of 'dow'
C12_Claimed ==
    [][(CallsTest /\ tasks[di].tester = "is_day_of_week"
        /\ HasKey(directories[tasks[di].si], "dow"))
         => testResult'
              = BoolStr(today \in Range(directories[tasks[di].si]["dow"].items))]_vars

\* the strategies whose answer depends on the files and the options only
Stateless == {"max_size", "max_count", "always", "never"}

InSolve == pc \in {"solve", "ro_loop", "ro_remove"}

\* C14: DiregDirectory.regulate() is one pass: the solution is called only
\* right after the test, exactly when the test returned true, and once it
\* returns the loop is at the next entity, so it is called at most once and
\* nothing is tried again; the solution of an entity whose test is 'never'
\* is never called and that entity removes no file
C14_SinglePass ==
    /\ [][/\ (pc = "regulate" /\ di <= Len(tasks))
               => (pc' = "solve" <=> testResult' = "True")
          /\ (pc' = "solve" /\ pc # "solve") => pc = "regulate"
          /\ pc = "solve" => pc' # "solve"
          /\ (pc' = "regulate" /\ (InSolve \/ pc = "regulate"))
               => di' = di + 1]_vars
    /\ [](InSolve => tasks[di].tester # "never")
    /\ [](\A k \in 1..Len(hist.removedBy) :
            tasks[hist.removedBy[k]].tester # "never")

\* a run has ended in which one entity's test was 'never', its directory
\* holds files and it removed none, while another entity's solution ran
C14_Witness ==
    /\ pc = "done"
    /\ \E i \in 1..Len(tasks) :
          /\ tasks[i].tester = "never"
          /\ Under(tasks[i].path, fs) # {}
          /\ Under(tasks[i].path, fs) = Under(tasks[i].path, DOMAIN files)
    /\ hist.removedBy # <<>>

\* the oldest file of a set of files of distinct modification times
Oldest(S) == CHOOSE f \in S : \A g \in S : files[f].mtime <= files[g].mtime

\* the files one run of regulate from beginning to end leaves of the files
\* `live`: the oldest file of the directory goes for as long as the test is
\* true and the directory holds a file
RECURSIVE Uninterrupted(_, _)
Uninterrupted(d, live) ==
    IF Under(d.path, live) = {} \/ test(d, live) # "True" THEN live
    ELSE Uninterrupted(d, live \ {Oldest(Under(d.path, live))})

Ended == pc \in {"done", "load_raised", "regulate_raised"}

\* C15: for a directory of files of distinct modification times under a
\* max_size or max_count test with remove_old, a run that was killed inside
\* remove_old, after any number of removals, and started again, ends without
\* an error and leaves exactly the files one run from beginning to end
\* leaves of the original files
C15_Resumption ==
    Ended => /\ pc = "done"
             /\ exc = NoExc
             /\ fs = Uninterrupted(tasks[1], DOMAIN files)

\* a run was killed after it had removed a file, and the run started after
\* it has removed another one and ended
C15_Witness ==
    /\ pc = "done"
    /\ hist.killed # <<>>
    /\ hist.killed[1] >= 1
    /\ Len(removed) > hist.killed[Len(hist.killed)]

\* the removals the entity being regulated has made
RemovalsOf(i) ==
    Cardinality({k \in 1..Len(hist.removedBy) : hist.removedBy[k] = i})

\* C16: while other processes create and remove files in the directory,
\* remove_old removes only files of the listing it took at entry, at most
\* as many files as that listing has, and it comes to an end
C16_SnapshotOnly ==
    /\ [][removed' # removed
            => \E f \in Range(hist.snapshot) :
                  /\ removed' = Append(removed, f)
                  /\ fs' = fs \ {f}]_vars
    /\ [](InRemoveOld => RemovalsOf(di) <= Len(hist.snapshot) - Len(contents))
    /\ (InRemoveOld ~> ~InRemoveOld)

\* remove_old has removed every file of its listing and returned, and the
\* directory, which holds only files created meanwhile, still exceeds its
\* maximal size
C16_Witness ==
    /\ pc = "regulate" /\ di = 2
    /\ tasks[1].tester = "max_size"
    /\ hist.snapshot # <<>>
    /\ Len(removed) = Len(hist.snapshot)
    /\ contents = <<>>
    /\ fs # {} /\ fs \cap Range(hist.snapshot) = {}
    /\ test(tasks[1], fs) = "True"

\* C17: when remove_old returns although the test of the live directory is
\* still true, every file of its listing has been tried and is gone, and the
\* return is a normal one: no error is raised, nothing is logged, and the
\* loop of regulate goes on with the next entity; only another call of
\* test() tells the directory still violates
C17_UnderRemediation ==
    [][(pc = "ro_loop" /\ pc' = "regulate" /\ test(tasks[di], fs) = "True")
         => /\ contents = <<>>
            /\ Range(hist.snapshot) \cap fs = {}
            /\ exc' = exc /\ log' = log
            /\ testResult' = testResult
            /\ di' = di + 1]_vars

\* remove_old has removed every file of a directory whose test is 'always'
\* and returned without an error, the test being as true as before
C17_Witness ==
    /\ pc = "regulate" /\ di = 2
    /\ tasks[1].tester = "always"
    /\ hist.snapshot # <<>>
    /\ Len(removed) = Len(hist.snapshot)
    /\ exc = NoExc /\ log = <<>>
    /\ test(tasks[1], fs) = "True"

\* C18: the entities are regulated one after the other in the order of the
\* list, each at most once: the calls of regulate() are those of entities
\* 1, 2, ... in that order, every removal is made by the entity regulated
\* last, and when an entity is tested every removal made so far is one of
\* an entity before it
C18_Sequential ==
    /\ [](hist.regulated = [k \in 1..Len(hist.regulated) |-> k])
    /\ [](InSolve => hist.regulated[Len(hist.regulated)] = di)
    /\ [][removed' # removed
            => /\ hist.removedBy' = Append(hist.removedBy, di)
               /\ hist.regulated[Len(hist.regulated)] = di]_vars
    /\ []((pc = "regulate" /\ di <= Len(tasks))
            => \A k \in 1..Len(hist.removedBy) : hist.removedBy[k] < di)

\* a run in which two entities have removed files, the first before the
\* second, has ended
C18_Witness ==
    /\ pc = "done"
    /\ hist.regulated = <<1, 2>>
    /\ \E k \in 1..(Len(hist.removedBy) - 1) :
          hist.removedBy[k] = 1 /\ hist.removedBy[k + 1] = 2

\* entity i has a max_size test with a threshold T >= 0 or a max_count
\* test with an integer N >= 0
ValidLimit(i) ==
    LET spec == directories[tasks[i].si]
    IN  \/ /\ tasks[i].tester = "max_size"
           /\ HasKey(spec, "max_size")
           /\ Threshold(spec["max_size"]) >= 0
        \/ /\ tasks[i].tester = "max_count"
           /\ HasKey(spec, "max_count")
           /\ IsInteger(spec["max_count"])
           /\ IntegerOf(spec["max_count"]) >= 0

\* the files S satisfy the limit of entity i
Compliant(i, S) ==
    LET spec == directories[tasks[i].si]
    IN  IF tasks[i].tester = "max_size"
        THEN Bytes(S) <= Threshold(spec["max_size"])
        ELSE Cardinality(S) <= IntegerOf(spec["max_count"])

\* the k oldest of the files S
OldestK(S, k) ==
    {f \in S :
        Cardinality({g \in S : files[g].mtime < files[f].mtime}) < k}

\* C19: with no other process at work and distinct modification times, when
\* regulate() returns on a directory with a max_size test (T >= 0) or a
\* max_count test (N >= 0) and remove_old, the directory satisfies its limit
\* and the files removed are exactly its k oldest files for the smallest k
\* whose removal makes the rest satisfy the limit
C19_MinimalRemediation ==
    [][(/\ pc \in {"regulate", "ro_loop"} /\ di <= Len(tasks)
        /\ pc' = "regulate" /\ di' # di /\ exc' = exc
        /\ ValidLimit(di) /\ tasks[di].solution = "remove_old"
        /\ DistinctTimes(tasks[di].path))
         => LET entry == IF pc = "regulate" THEN fs ELSE hist.entryFs
                U == Under(tasks[di].path, entry)
                gone == entry \ fs'
            IN  /\ Compliant(di, Under(tasks[di].path, fs'))
                /\ test(tasks[di], fs') = "False"
                /\ \E k \in 0..Cardinality(U) :
                      /\ gone = OldestK(U, k)
                      /\ Compliant(di, U \ OldestK(U, k))
                      /\ \A j \in 0..(k - 1) :
                            ~Compliant(di, U \ OldestK(U, j))]_vars

\* regulate() has returned on a directory with a count limit after removing
\* some of its files and leaving others
C19_Witness ==
    /\ pc = "regulate" /\ di = 2
    /\ tasks[1].tester = "max_count" /\ ValidLimit(1)
    /\ DistinctTimes(tasks[1].path)
    /\ exc = NoExc
    /\ Len(removed) >= 2
    /\ Under(tasks[1].path, fs) # {}

\* neither of two paths is the other or below it
Apart(p, q) == ~IsUnder(p, q) /\ ~IsUnder(q, p)

\* C20: regulating an entity creates and modifies no file, and every file
\* it removes is in the entity's directory or below it, so the files of
\* every entity whose path is apart from it are left as they were
C20_Frame ==
    [][/\ files' = files /\ perm' = perm
       /\ fs' \subseteq fs
       /\ fs' # fs
            => /\ InSolve
               /\ (fs \ fs') \subseteq Under(tasks[di].path, fs)
               /\ \A j \in 1..Len(tasks) :
                     Apart(tasks[j].path, tasks[di].path)
                       => Under(tasks[j].path, fs') = Under(tasks[j].path, fs)]_vars

\* the entity of a directory has removed a file of the directory below it,
\* which is an entity too, and a directory beside them has kept its files
C20_Witness ==
    \E i, j \in 1..Len(tasks) : \E k \in 1..Len(removed) :
        /\ tasks[i].path = A /\ tasks[j].path = SUB
        /\ Len(hist.removedBy) = Len(removed)
        /\ hist.removedBy[k] = i
        /\ files[removed[k]].dir = SUB
        /\ Under(B, fs) = Under(B, DOMAIN files) /\ Under(B, fs) # {}

====
